---- MODULE Spec2Model ----
(***************************************************************************)
(* A model of the Netflix Top-10 scraper service (ScraperService):         *)
(*   - the list extractor parseTableData with its three parsing methods,   *)
(*     rank reconciliation and fillMissingRanks;                           *)
(*   - the TMDB match engine searchTMDB / findBestMatch;                   *)
(*   - the enrichment loop enrichWithTMDB.                                 *)
(* The DOM is abstracted to what the selectors of the code read: the       *)
(* title anchors of the document in document order, each with the facts    *)
(* the code asks about it, and the numbered items of the flattened text.   *)
(***************************************************************************)
EXTENDS Integers, Sequences, FiniteSets, TLC

VARIABLES
    \* ---- list extractor (parseTableData) ----
    doc,            \* the parsed document ($)
    sectionType,    \* "TV Shows" | "Movies"
    xpc,            \* position inside parseTableData
    results,        \* the accumulator `results`
    finalResults,   \* `finalResults`, the returned list
    ran,            \* history: the methods that have run, in order
    \* ---- match scoring (findBestMatch) ----
    mpc,            \* "call" | "done"
    mResults,       \* the candidates of one search response
    mTitle,         \* originalTitle
    mCountry,       \* countryCode
    mType,          \* mediaType
    mBest,          \* the value findBestMatch returned
    \* ---- searchTMDB and enrichWithTMDB ----
    apiKey,         \* this.tmdbApiKey is set
    mode,           \* the method called: "enrich" | "search"
    items,          \* enrichWithTMDB's `items`
    country,        \* countryCode
    epc,            \* position inside enrichWithTMDB
    idx,            \* index of the item of the for...of loop (0: none)
    tmdbData,       \* `tmdbData`: what the first searchTMDB call returned
    enrichedItem,   \* `enrichedItem`
    enriched,       \* `enrichedItems`
    out,            \* the value enrichWithTMDB returned
    spc,            \* position inside searchTMDB
    sTitle,         \* searchTMDB's `title`
    sType,          \* searchTMDB's `mediaType`
    strat,          \* i + 1: the strategy of the loop
    sret,           \* the value searchTMDB returned
    threw,          \* searchTMDB raised an error to its caller
    inflight,       \* search requests issued and not yet answered
    \* history
    issued,         \* strategies issued by the current searchTMDB call
    outcomes,       \* and how each of them ended
    invoked,        \* searchTMDB calls made for the current item
    found,          \* per pushed item: some searchTMDB call returned a match
    lastEvent,      \* the last external event: request, response or wait
    lastCallItem,   \* the item the last request was issued for
    \* ---- calculateStringSimilarity ----
    simpc,          \* "call" | "done"
    simA,           \* a string
    simB,           \* another string
    simAB,          \* calculateStringSimilarity(simA, simB)
    simBA,          \* calculateStringSimilarity(simB, simA)
    simAA,          \* calculateStringSimilarity(simA, simA)
    \* ---- the TV-shows cache of ScraperController ----
    now,            \* Date.now(), in ticks
    hasLocalStorage,\* typeof localStorage !== 'undefined'
    localStore,     \* the localStorage item of the key 'netflix_tv_shows'
    memoryCache,    \* this.memoryCache's entry of that key
    nreq,           \* requests received by getNetflixTVShows
    scraping,       \* the requests awaiting scrapeNetflixTop10('tv')
    \* history
    storedAt,       \* per request whose scrape succeeded: when setCache ran
    failed,         \* the requests whose scrape failed
    lastResp,       \* the last response getNetflixTVShows sent
    clearedAt,      \* nreq when the cache was last cleared, -1: never
    storedSince     \* setCache has run since the cache was last cleared

xvars == <<doc, sectionType, xpc, results, finalResults, ran>>
mvars == <<mpc, mResults, mTitle, mCountry, mType, mBest>>
evars == <<apiKey, mode, items, country, epc, idx, tmdbData, enrichedItem, enriched, out,
           spc, sTitle, sType, strat, sret, threw, inflight,
           issued, outcomes, invoked, found, lastEvent, lastCallItem>>
svars == <<simpc, simA, simB, simAB, simBA, simAA>>
cvars == <<now, hasLocalStorage, localStore, memoryCache, nreq, scraping,
           storedAt, failed, lastResp, clearedAt, storedSince>>
vars == <<xvars, mvars, evars, svars, cvars>>

----------------------------------------------------------------------------
(* Bounds of the model *)

MaxAnchors == 11    \* title anchors in a document
MaxIrregular == 2   \* irregular elements of a document (see Irregular)
MaxTitleLen == 2    \* characters of a title given to the match engine
MaxCands == 2       \* candidates in one search response
MaxItems == 2       \* entries given to enrichWithTMDB
MaxStrLen == 3      \* characters of a string given to calculateStringSimilarity
MaxTime == 2        \* ticks the clock advances
MaxReqs == 3        \* requests the TV-shows endpoint receives

(* Program constants *)

MaxRank == 10       \* ranks are 1..10
Sufficient == 8     \* results.length < 8 triggers the next method
CurrentYear == 2026 \* new Date().getFullYear()
NumStrategies == 4  \* searchStrategies.length

----------------------------------------------------------------------------
(* Documents *)

\* An anchor a[href*="/title/"] of the document:
\*   title  - $link.text().trim(), a sequence of characters
\*   td     - it matches td.table-td a[href*="/title/"]
\*   sib    - it lies in the first sibling after the section header that
\*            holds td.table-td title links (within the 10 hops walked)
\*   level  - the lowest ancestor level of the header (0 = parent) whose
\*            subtree holds it; 3 = none of the three levels searched
\*   after  - $link.closest('tr').index() > $sectionHeader.index()
\*   cells  - the texts of the row's cells that are standalone integers
\*   sec    - it lies in one of the 10 siblings after the header that
\*            parseSectionBased finds
PlainRow ==
    [title |-> <<"a">>, td |-> TRUE, sib |-> TRUE, level |-> 0, after |-> TRUE,
     cells |-> <<>>, sec |-> FALSE]

\* A link of a list layout: outside any table, inside the section region.
ListLink ==
    [title |-> <<"a">>, td |-> FALSE, sib |-> FALSE, level |-> 3, after |-> FALSE,
     cells |-> <<>>, sec |-> TRUE]

OddAnchors ==
    { \* a table row whose link has no text
      [PlainRow EXCEPT !.title = <<>>],
      \* a table row with an out-of-range number and then its rank in a cell
      [PlainRow EXCEPT !.title = <<"a", "b">>, !.cells = <<11, 3>>],
      \* a td link one ancestor level up, and inside the section region
      [title |-> <<"c">>, td |-> TRUE, sib |-> FALSE, level |-> 1, after |-> FALSE,
       cells |-> <<>>, sec |-> TRUE],
      \* a td link under the header's parent, before the header
      [title |-> <<"d">>, td |-> TRUE, sib |-> FALSE, level |-> 0, after |-> FALSE,
       cells |-> <<>>, sec |-> FALSE],
      \* a link outside any table, inside the section region
      [title |-> <<"e">>, td |-> FALSE, sib |-> FALSE, level |-> 3, after |-> FALSE,
       cells |-> <<>>, sec |-> TRUE] }

\* A numbered item of the text window: the leading integer and the text as
\* cleaned by the replace/split/trim chain.
TextItems ==
    { [num |-> 2, title |-> <<"a", "b">>],
      [num |-> 11, title |-> <<"g", "a">>],
      [num |-> 9, title |-> <<"h">>] }

SectionTypes == {"TV Shows", "Movies"}

RECURSIVE SeqsUpTo(_, _)
SeqsUpTo(S, n) ==
    IF n = 0 THEN {<<>>}
    ELSE LET shorter == SeqsUpTo(S, n - 1)
         IN shorter \cup {Append(s, x) : s \in {t \in shorter : Len(t) = n - 1}, x \in S}

\* A document: `rows` regular anchors, plain table rows or, in a list
\* layout, list links, with a block of irregular anchors inserted after the
\* first `at` of them.
MakeDoc(rows, at, block, text, h, sh, list) ==
    LET regular == IF list THEN ListLink ELSE PlainRow
    IN  [header |-> h, secHeader |-> sh,
         anchors |-> [i \in 1..at |-> regular] \o block \o [i \in 1..(rows - at) |-> regular],
         text |-> text]

\* What makes a document irregular: an anchor that is no regular one, a
\* numbered text item, a missing table header, a section header, a list
\* layout.
Irregular(block, text, h, sh, list) ==
    Len(block) + Len(text) + (IF h THEN 0 ELSE 1) + (IF sh THEN 1 ELSE 0)
        + (IF list THEN 1 ELSE 0)

----------------------------------------------------------------------------
(* Helpers *)

Entry(rank, title, category) ==
    [rank |-> rank, title |-> title, category |-> category]

\* results.find(r => r.rank === rank)
HasRank(list, rank) == \E i \in 1..Len(list) : list[i].rank = rank

Min(a, b) == IF a < b THEN a ELSE b

CategoryOf(st) == IF st = "TV Shows" THEN "TV Show" ELSE "Movie"

\* The first cell that is a number in 1..10; 0 stands for `rank = null`.
RECURSIVE RowRank(_)
RowRank(cells) ==
    IF cells = <<>> THEN 0
    ELSE IF Head(cells) >= 1 /\ Head(cells) <= MaxRank THEN Head(cells)
    ELSE RowRank(Tail(cells))

----------------------------------------------------------------------------
(* Method 1: header-anchored table scan *)

SiblingLinks(d) == SelectSeq(d.anchors, LAMBDA a : a.td /\ a.sib)

\* titleLinks.each of the sibling walk; index is 1-based here (index + 1).
RECURSIVE ScanSiblingLinks(_, _, _, _)
ScanSiblingLinks(links, index, acc, category) ==
    IF index > Len(links) THEN acc
    ELSE LET a == links[index]
             cellRank == RowRank(a.cells)
             rank == IF cellRank = 0 THEN index ELSE cellRank
         IN  IF a.title = <<>> THEN ScanSiblingLinks(links, index + 1, acc, category)
             ELSE IF rank >= 1 /\ rank <= MaxRank /\ ~HasRank(acc, rank)
                  THEN ScanSiblingLinks(links, index + 1,
                                        Append(acc, Entry(rank, a.title, category)), category)
                  ELSE ScanSiblingLinks(links, index + 1, acc, category)

AncestorLinks(d, level) == SelectSeq(d.anchors, LAMBDA a : a.td /\ a.level <= level)

\* titleLinks.each of the parent-container search
RECURSIVE ScanAncestorLinks(_, _, _, _, _)
ScanAncestorLinks(links, index, acc, level, category) ==
    IF index > Len(links) THEN acc
    ELSE LET a == links[index]
         IN  IF a.title = <<>> \/ Len(acc) >= MaxRank
             THEN ScanAncestorLinks(links, index + 1, acc, level, category)
             ELSE IF a.after \/ level > 0
                  THEN ScanAncestorLinks(links, index + 1,
                           Append(acc, Entry(Len(acc) + 1, a.title, category)), level, category)
                  ELSE ScanAncestorLinks(links, index + 1, acc, level, category)

\* for (let level = 0; level < 3; level++): the first level that holds links
RECURSIVE AncestorSearch(_, _, _)
AncestorSearch(d, level, category) ==
    IF level >= 3 THEN <<>>
    ELSE IF Len(AncestorLinks(d, level)) > 0
         THEN ScanAncestorLinks(AncestorLinks(d, level), 1, <<>>, level, category)
         ELSE AncestorSearch(d, level + 1, category)

\* titleLinks.slice(0, 10).each when no header is found
RECURSIVE ScanGlobalLinks(_, _, _, _)
ScanGlobalLinks(links, index, acc, category) ==
    IF index > Len(links) THEN acc
    ELSE LET a == links[index]
         IN  IF a.title # <<>>
             THEN ScanGlobalLinks(links, index + 1,
                                  Append(acc, Entry(index, a.title, category)), category)
             ELSE ScanGlobalLinks(links, index + 1, acc, category)

GlobalFallback(d, category) ==
    LET all == SelectSeq(d.anchors, LAMBDA a : a.td)
    IN  ScanGlobalLinks(SubSeq(all, 1, Min(10, Len(all))), 1, <<>>, category)

TableScan(d, category) ==
    IF d.header
    THEN LET sib == SiblingLinks(d)
             fromSiblings == IF Len(sib) > 0
                             THEN ScanSiblingLinks(sib, 1, <<>>, category)
                             ELSE <<>>
         IN  IF Len(fromSiblings) = 0
             THEN AncestorSearch(d, 0, category)
             ELSE fromSiblings
    ELSE GlobalFallback(d, category)

----------------------------------------------------------------------------
(* Method 2: section-based scan *)

RECURSIVE ScanSectionLinks(_, _, _, _)
ScanSectionLinks(links, index, acc, category) ==
    IF index > Len(links) THEN acc
    ELSE LET a == links[index]
         IN  IF a.title # <<>> /\ Len(acc) < 10
             THEN ScanSectionLinks(links, index + 1,
                      Append(acc, Entry(Len(acc) + 1, a.title, category)), category)
             ELSE ScanSectionLinks(links, index + 1, acc, category)

parseSectionBased(d, st) ==
    IF d.secHeader
    THEN ScanSectionLinks(SelectSeq(d.anchors, LAMBDA a : a.sec), 1, <<>>, CategoryOf(st))
    ELSE <<>>

----------------------------------------------------------------------------
(* Method 3: aggressive text scan *)

RECURSIVE ScanTextItems(_, _, _, _)
ScanTextItems(numbered, index, acc, category) ==
    IF index > Len(numbered) THEN acc
    ELSE LET it == numbered[index]
         IN  IF it.title # <<>> /\ Len(it.title) > 1 /\ Len(it.title) < 100
                /\ it.num >= 1 /\ it.num <= MaxRank
             THEN ScanTextItems(numbered, index + 1,
                      Append(acc, Entry(it.num, it.title, category)), category)
             ELSE ScanTextItems(numbered, index + 1, acc, category)

parseTextBasedAggressive(d, st) == ScanTextItems(d.text, 1, <<>>, CategoryOf(st))

----------------------------------------------------------------------------
(* Rank reconciliation *)

\* MergeByRank that also skips an item whose title is already held.
RECURSIVE MergeByRankAndTitle(_, _)
MergeByRankAndTitle(acc, xs) ==
    IF xs = <<>> THEN acc
    ELSE IF ~HasRank(acc, Head(xs).rank)
            /\ ~\E i \in 1..Len(acc) : acc[i].title = Head(xs).title
         THEN MergeByRankAndTitle(Append(acc, Head(xs)), Tail(xs))
         ELSE MergeByRankAndTitle(acc, Tail(xs))

\* xs.forEach(item => { if (!results.find(r => r.rank === item.rank)) results.push(item) })
RECURSIVE MergeByRank(_, _)
MergeByRank(acc, xs) ==
    IF xs = <<>> THEN acc
    ELSE IF ~HasRank(acc, Head(xs).rank)
         THEN MergeByRank(Append(acc, Head(xs)), Tail(xs))
         ELSE MergeByRank(acc, Tail(xs))

\* Insert x after the last element whose rank is <= x.rank (a stable sort step).
RECURSIVE InsertByRank(_, _)
InsertByRank(sorted, x) ==
    IF sorted = <<>> THEN <<x>>
    ELSE IF Head(sorted).rank <= x.rank
         THEN <<Head(sorted)>> \o InsertByRank(Tail(sorted), x)
         ELSE <<x>> \o sorted

\* results.sort((a, b) => a.rank - b.rank)
RECURSIVE SortByRank(_)
SortByRank(list) ==
    IF list = <<>> THEN <<>>
    ELSE InsertByRank(SortByRank(SubSeq(list, 1, Len(list) - 1)), list[Len(list)])

\* for (const item of results): keep the first entry of every rank in 1..10
RECURSIVE UniqueRanks(_, _)
UniqueRanks(list, acc) ==
    IF list = <<>> THEN acc
    ELSE LET item == Head(list)
         IN  IF ~HasRank(acc, item.rank) /\ item.rank >= 1 /\ item.rank <= MaxRank
             THEN UniqueRanks(Tail(list), Append(acc, item))
             ELSE UniqueRanks(Tail(list), acc)

Reconcile(list) == UniqueRanks(SortByRank(list), <<>>)

----------------------------------------------------------------------------
(* Gap fill *)

\* Mutant: the rank is taken without asking existingRanks.
FirstFreeRankUnchecked(current, rank) == rank

\* for (let rank = 1; rank <= 10; rank++) if (!existingRanks.has(rank)): the
\* first free rank from `rank` on, 0 when there is none.
RECURSIVE FirstFreeRank(_, _)
FirstFreeRank(current, rank) ==
    IF rank > MaxRank THEN 0
    ELSE IF ~HasRank(current, rank) THEN rank
    ELSE FirstFreeRank(current, rank + 1)

\* fillMissingRanks without `if (!title) return`.
RECURSIVE fillMissingRanksAnyTitle(_, _, _, _)
fillMissingRanksAnyTitle(links, index, current, category) ==
    IF index > Len(links) THEN current
    ELSE LET a == links[index]
             free == FirstFreeRank(current, 1)
             filled == IF free = 0 THEN current
                       ELSE Append(current, Entry(free, a.title, category))
         IN  IF Len(filled) >= 10 THEN filled
             ELSE fillMissingRanksAnyTitle(links, index + 1, filled, category)

\* allTitleLinks.each(...)
RECURSIVE fillMissingRanks(_, _, _, _)
fillMissingRanks(links, index, current, category) ==
    IF index > Len(links) THEN current
    ELSE LET a == links[index]
             free == FirstFreeRank(current, 1)
             filled == IF free = 0 THEN current
                       ELSE Append(current, Entry(free, a.title, category))
         IN  IF a.title = <<>> THEN fillMissingRanks(links, index + 1, current, category)
             ELSE IF Len(filled) >= 10 THEN filled
             ELSE fillMissingRanks(links, index + 1, filled, category)

----------------------------------------------------------------------------
(* Match engine: strings *)

\* The characters of the model: two lower-case letters, an upper-case
\* letter and a punctuation mark.
Chars == {"a", "b", "A", "!"}

\* String.prototype.toLowerCase, per character
Lower(c) == IF c = "A" THEN "a" ELSE IF c = "B" THEN "b" ELSE c

\* The characters [^\w\s] removes
IsPunct(c) == c \in {"!", "-", ":", "."}

\* s.toLowerCase()
LowerCase(s) == [i \in 1..Len(s) |-> Lower(s[i])]

\* s.replace(/[^\w\s]/g, '')
StripPunct(s) == SelectSeq(s, LAMBDA c : ~IsPunct(c))

\* hay.includes(needle)
Includes(hay, needle) ==
    \E i \in 0..(Len(hay) - Len(needle)) : SubSeq(hay, i + 1, i + Len(needle)) = needle

Min3(a, b, c) == Min(a, Min(b, c))

\* matrix[str2.length][str1.length] of the matrix the two loops fill
levenshteinDistance(str1, str2) ==
    LET matrix[i \in 0..Len(str2), j \in 0..Len(str1)] ==
            IF i = 0 THEN j
            ELSE IF j = 0 THEN i
            ELSE IF str2[i] = str1[j] THEN matrix[i - 1, j - 1]
            ELSE Min3(matrix[i - 1, j - 1] + 1, matrix[i, j - 1] + 1, matrix[i - 1, j] + 1)
    IN  matrix[Len(str2), Len(str1)]

\* calculateStringSimilarity dividing by the length of the first string.
calculateStringSimilarityByFirst(str1, str2) ==
    IF Len(str1) = 0 /\ Len(str2) = 0 THEN [num |-> 1, den |-> 1]
    ELSE [num |-> Len(str1) - levenshteinDistance(str1, str2), den |-> Len(str1)]

\* The similarity as the fraction num / den.
calculateStringSimilarity(str1, str2) ==
    LET longer == IF Len(str1) > Len(str2) THEN str1 ELSE str2
        shorter == IF Len(str1) > Len(str2) THEN str2 ELSE str1
    IN  IF Len(longer) = 0 THEN [num |-> 1, den |-> 1]
        ELSE [num |-> Len(longer) - levenshteinDistance(longer, shorter),
              den |-> Len(longer)]

----------------------------------------------------------------------------
(* Match engine: candidates and scoring *)

\* A release date: absent, unparseable, or a date of the given year.
NoDate == [kind |-> "none", year |-> 0]
BadDate == [kind |-> "invalid", year |-> 0]
DateOf(y) == [kind |-> "date", year |-> y]

\* A search result: title is `title || name || ''`, date is
\* `release_date || first_air_date`, media_type "" when the field is absent.
Cand(id, title, mt, date, origin, pop, vote) ==
    [id |-> id, title |-> title, media_type |-> mt, date |-> date,
     origin_country |-> origin, popularity |-> pop, vote_average |-> vote]

Catalog ==
    { Cand(1, <<"a", "b">>,      "tv",    DateOf(CurrentYear),     {"PH"}, 0,   0),
      Cand(2, <<"a", "b", "b">>, "tv",    DateOf(CurrentYear),     {"PH"}, 200, 10),
      Cand(3, <<"b", "b">>,      "movie", DateOf(CurrentYear - 4), {},     50,  10),
      Cand(4, <<"A", "!", "b">>, "",      NoDate,                  {"US"}, 0,   6),
      Cand(5, <<"b", "a", "b">>, "movie", DateOf(1985),            {},     200, 7),
      Cand(6, <<>>,              "tv",    BadDate,                 {"PH"}, 200, 10),
      Cand(7, <<"b", "a">>,      "tv",    DateOf(CurrentYear),     {"PH"}, 200, 10) }

RECURSIVE Factorial(_)
Factorial(n) == IF n <= 1 THEN 1 ELSE n * Factorial(n - 1)

LongestTitle ==
    LET lens == {Len(c.title) : c \in Catalog} \cup {MaxTitleLen}
    IN  CHOOSE n \in lens : \A m \in lens : m <= n

\* Scores are kept as integers: the score of the code times ScoreScale,
\* which makes popularity * 0.1 and similarity * 60 whole numbers.
ScoreScale == 10 * Factorial(LongestTitle)

\* new Date(date || '1900').getFullYear(); nan for an Invalid Date
ReleaseYear(r) ==
    IF r.date.kind = "none" THEN [nan |-> FALSE, y |-> 1900]
    ELSE IF r.date.kind = "invalid" THEN [nan |-> TRUE, y |-> 0]
    ELSE [nan |-> FALSE, y |-> r.date.year]

\* Comparisons with NaN are false.
YearGE(ry, k) == ~ry.nan /\ ry.y >= k
YearLE(ry, k) == ~ry.nan /\ ry.y <= k
YearLT(ry, k) == ~ry.nan /\ ry.y < k

CleanTitle(t) == StripPunct(LowerCase(t))

\* Title similarity (most important factor)
TitlePoints(originalTitle, r) ==
    LET cleanOriginalTitle == CleanTitle(originalTitle)
        cleanResultTitle == CleanTitle(r.title)
        similarity == calculateStringSimilarity(cleanOriginalTitle, cleanResultTitle)
    IN  IF cleanResultTitle = cleanOriginalTitle THEN 100 * ScoreScale
        ELSE IF Includes(cleanResultTitle, cleanOriginalTitle)
                \/ Includes(cleanOriginalTitle, cleanResultTitle) THEN 80 * ScoreScale
        ELSE (similarity.num * 60 * ScoreScale) \div similarity.den

\* Release date preference
RecencyPoints(r, countryCode) ==
    LET releaseYear == ReleaseYear(r)
    IN  IF countryCode = "PH"
        THEN IF YearGE(releaseYear, CurrentYear - 2) THEN 30 * ScoreScale
             ELSE IF YearGE(releaseYear, CurrentYear - 5) THEN 20 * ScoreScale
             ELSE IF YearGE(releaseYear, 2010) THEN 10 * ScoreScale
             ELSE 0
        ELSE IF YearGE(releaseYear, 2000) /\ YearLE(releaseYear, CurrentYear - 1)
             THEN 20 * ScoreScale
             ELSE 0

\* Regional content boost
RegionPoints(r, countryCode) ==
    IF countryCode \in r.origin_country THEN 25 * ScoreScale ELSE 0

\* Math.min(popularity * 0.1, 10)
PopularityPoints(r) == Min((r.popularity * ScoreScale) \div 10, 10 * ScoreScale)

\* Math.min(vote_average * 2, 20)
RatingPoints(r) == Min(r.vote_average * 2 * ScoreScale, 20 * ScoreScale)

\* Penalize very old content unless it's a classic
StalePenalty(r) ==
    IF YearLT(ReleaseYear(r), 1990) /\ r.vote_average < 7 THEN 20 * ScoreScale ELSE 0

Score(r, originalTitle, countryCode) ==
    TitlePoints(originalTitle, r) + RecencyPoints(r, countryCode)
        + RegionPoints(r, countryCode) + PopularityPoints(r) + RatingPoints(r)
        - StalePenalty(r)

\* FilterByType without the filter.
FilterByTypeNone(rs, mediaType) == rs

\* results.filter(r => (r.media_type || mediaType) === mediaType), all the
\* results when that leaves none
FilterByType(rs, mediaType) ==
    IF mediaType # "multi"
    THEN LET filtered == SelectSeq(rs, LAMBDA r :
                 (IF r.media_type # "" THEN r.media_type ELSE mediaType) = mediaType)
         IN  IF Len(filtered) = 0 THEN rs ELSE filtered
    ELSE rs

\* InsertByScore placing x before the elements of equal score.
RECURSIVE InsertByScoreUnstable(_, _)
InsertByScoreUnstable(sorted, x) ==
    IF sorted = <<>> THEN <<x>>
    ELSE IF Head(sorted).similarity_score > x.similarity_score
         THEN <<Head(sorted)>> \o InsertByScoreUnstable(Tail(sorted), x)
         ELSE <<x>> \o sorted

\* Insert x after the last element whose score is >= x's (a stable sort step).
RECURSIVE InsertByScore(_, _)
InsertByScore(sorted, x) ==
    IF sorted = <<>> THEN <<x>>
    ELSE IF Head(sorted).similarity_score >= x.similarity_score
         THEN <<Head(sorted)>> \o InsertByScore(Tail(sorted), x)
         ELSE <<x>> \o sorted

\* scoredResults.sort((a, b) => b.similarity_score - a.similarity_score)
RECURSIVE SortByScore(_)
SortByScore(list) ==
    IF list = <<>> THEN <<>>
    ELSE InsertByScore(SortByScore(SubSeq(list, 1, Len(list) - 1)), list[Len(list)])

ScoredResults(rs, originalTitle, countryCode, mediaType) ==
    LET filteredResults == FilterByType(rs, mediaType)
    IN  [i \in 1..Len(filteredResults) |->
            [cand |-> filteredResults[i],
             similarity_score |-> Score(filteredResults[i], originalTitle, countryCode)]]

Null == [null |-> TRUE]

findBestMatch(rs, originalTitle, countryCode, mediaType) ==
    IF Len(rs) = 0 THEN Null
    ELSE SortByScore(ScoredResults(rs, originalTitle, countryCode, mediaType))[1]

Strings(n) == SeqsUpTo(Chars, n)
MediaTypes == {"multi", "movie", "tv"}
Countries == {"PH", "US"}

----------------------------------------------------------------------------
(* findBestMatch applied to one search response *)

MInit ==
    /\ mpc = "call"
    /\ mResults \in SeqsUpTo(Catalog, MaxCands)
    /\ mTitle \in Strings(MaxTitleLen)
    /\ mCountry \in Countries
    /\ mType \in MediaTypes
    /\ mBest = Null

MIdle ==
    /\ mpc = "idle"
    /\ mResults = <<>>
    /\ mTitle = <<>>
    /\ mCountry = "PH"
    /\ mType = "multi"
    /\ mBest = Null

SIdle ==
    /\ simpc = "idle"
    /\ simA = <<>>
    /\ simB = <<>>
    /\ simAB = Null
    /\ simBA = Null
    /\ simAA = Null

\* No entry under the key: getItem returns null, Map.get undefined.
NoEntry == [none |-> TRUE]

NoResponse == [kind |-> "none"]

CIdle ==
    /\ now = 0
    /\ hasLocalStorage = FALSE
    /\ localStore = NoEntry
    /\ memoryCache = NoEntry
    /\ nreq = 0
    /\ scraping = {}
    /\ storedAt = <<>>
    /\ failed = {}
    /\ lastResp = NoResponse
    /\ clearedAt = -1
    /\ storedSince = FALSE

XIdle ==
    /\ doc = MakeDoc(0, 0, <<>>, <<>>, TRUE, FALSE, FALSE)
    /\ sectionType = "TV Shows"
    /\ xpc = "idle"
    /\ results = <<>>
    /\ finalResults = <<>>
    /\ ran = <<>>

BestMatch ==
    /\ mpc = "call"
    /\ mBest' = findBestMatch(mResults, mTitle, mCountry, mType)
    /\ mpc' = "done"
    /\ UNCHANGED <<mResults, mTitle, mCountry, mType>>
    /\ UNCHANGED <<xvars, evars, svars, cvars>>

----------------------------------------------------------------------------
(* parseTableData as a sequence of steps *)

XInit ==
    /\ \E rows \in 0..MaxAnchors, h \in BOOLEAN, sh \in BOOLEAN, list \in BOOLEAN :
       \E block \in SeqsUpTo(OddAnchors, MaxIrregular) :
       \E text \in SeqsUpTo(TextItems, MaxIrregular) :
          /\ rows + Len(block) <= MaxAnchors
          /\ Irregular(block, text, h, sh, list) <= MaxIrregular
          /\ \E at \in 0..(IF block = <<>> THEN 0 ELSE rows) :
                 doc = MakeDoc(rows, at, block, text, h, sh, list)
    /\ sectionType \in SectionTypes
    /\ xpc = "method1"
    /\ results = <<>>
    /\ finalResults = <<>>
    /\ ran = <<>>

Method1 ==
    /\ xpc = "method1"
    /\ results' = TableScan(doc, CategoryOf(sectionType))
    /\ ran' = Append(ran, 1)
    /\ xpc' = "method2"
    /\ UNCHANGED <<doc, sectionType, finalResults>>
    /\ UNCHANGED <<mvars, evars, svars, cvars>>

Method2 ==
    /\ xpc = "method2"
    /\ IF Len(results) < Sufficient
       THEN /\ results' = MergeByRank(results, parseSectionBased(doc, sectionType))
            /\ ran' = Append(ran, 2)
       ELSE UNCHANGED <<results, ran>>
    /\ xpc' = "method3"
    /\ UNCHANGED <<doc, sectionType, finalResults>>
    /\ UNCHANGED <<mvars, evars, svars, cvars>>

\* Method3 without the test of results.length.
Method3Unguarded ==
    /\ xpc = "method3"
    /\ results' = MergeByRank(results, parseTextBasedAggressive(doc, sectionType))
    /\ ran' = Append(ran, 3)
    /\ xpc' = "reconcile"
    /\ UNCHANGED <<doc, sectionType, finalResults>>
    /\ UNCHANGED <<mvars, evars, svars, cvars>>

Method3 ==
    /\ xpc = "method3"
    /\ IF Len(results) < Sufficient
       THEN /\ results' = MergeByRank(results, parseTextBasedAggressive(doc, sectionType))
            /\ ran' = Append(ran, 3)
       ELSE UNCHANGED <<results, ran>>
    /\ xpc' = "reconcile"
    /\ UNCHANGED <<doc, sectionType, finalResults>>
    /\ UNCHANGED <<mvars, evars, svars, cvars>>

\* The sort, the unique-rank pass, the gap fill and the return.
Finish ==
    /\ xpc = "reconcile"
    /\ LET final == Reconcile(results)
       IN  IF Len(final) < 10
           THEN /\ finalResults' = fillMissingRanks(doc.anchors, 1, final, CategoryOf(sectionType))
                /\ ran' = Append(ran, 4)
           ELSE /\ finalResults' = final
                /\ UNCHANGED ran
    /\ results' = SortByRank(results)
    /\ xpc' = "returned"
    /\ UNCHANGED <<doc, sectionType>>
    /\ UNCHANGED <<mvars, evars, svars, cvars>>

----------------------------------------------------------------------------
(* searchTMDB *)

\* The entries a caller passes to enrichWithTMDB.
ItemSet ==
    { Entry(1, <<"a", "b">>, "TV Show"),
      Entry(2, <<"b", "!">>, "Movie") }

\* The non-empty result lists the search API answers with.
SearchResponses ==
    { <<Cand(1, <<"a", "b">>, "tv", DateOf(CurrentYear), {"PH"}, 0, 0)>>,
      <<Cand(3, <<"b", "b">>, "movie", DateOf(CurrentYear - 4), {}, 50, 10),
        Cand(4, <<"A", "!", "b">>, "", NoDate, {"US"}, 0, 6)>> }

\* Mutant: the match replaces the entry instead of extending it.
SpreadReplaces(a, b) == IF b = Null THEN a ELSE b

\* { ...a, ...b }, Object.assign(a, b): b's fields over a's; null adds none.
Spread(a, b) == IF b = Null THEN a ELSE b @@ a

\* Mutant: search_strategy_used is i, not i + 1.
MatchResultZeroBased(bestMatch, mediaType, strategy) ==
    [tmdb_id |-> bestMatch.cand.id,
     tmdb_title |-> bestMatch.cand.title,
     tmdb_release_date |-> bestMatch.cand.date,
     tmdb_media_type |-> IF bestMatch.cand.media_type # ""
                         THEN bestMatch.cand.media_type ELSE mediaType,
     search_strategy_used |-> strategy - 1]

\* The object searchTMDB returns for bestMatch found by strategy i + 1.
MatchResult(bestMatch, mediaType, strategy) ==
    [tmdb_id |-> bestMatch.cand.id,
     tmdb_title |-> bestMatch.cand.title,
     tmdb_release_date |-> bestMatch.cand.date,
     tmdb_media_type |-> IF bestMatch.cand.media_type # ""
                         THEN bestMatch.cand.media_type ELSE mediaType,
     search_strategy_used |-> strategy]

\* item.category === 'Movie' ? 'movie' : 'tv'
MediaTypeOf(item) == IF item.category = "Movie" THEN "movie" ELSE "tv"

searchFrame == <<sTitle, sType>>
enrichFrame == <<epc, idx, tmdbData, enrichedItem, enriched, out, invoked, found>>
config == <<apiKey, mode, items, country>>

\* if (!this.tmdbApiKey) return null; otherwise enter the strategy loop
SearchEnter ==
    /\ spc = "enter"
    /\ IF ~apiKey
       THEN /\ sret' = Null
            /\ spc' = "return"
            /\ UNCHANGED <<strat, issued, outcomes>>
       ELSE /\ strat' = 1
            /\ issued' = <<>>
            /\ outcomes' = <<>>
            /\ spc' = "issue"
            /\ UNCHANGED sret
    /\ UNCHANGED <<config, enrichFrame, searchFrame, threw, inflight, lastEvent, lastCallItem>>
    /\ UNCHANGED <<xvars, mvars, svars, cvars>>

\* axios.get(`${this.tmdbBaseUrl}/search/${mediaType}`, ...) of strategy i + 1
IssueRequest ==
    /\ spc = "issue"
    /\ inflight' = inflight + 1
    /\ issued' = Append(issued, strat)
    /\ lastEvent' = "request"
    /\ lastCallItem' = idx
    /\ spc' = "await"
    /\ UNCHANGED <<config, enrichFrame, searchFrame, strat, sret, threw, outcomes>>
    /\ UNCHANGED <<xvars, mvars, svars, cvars>>

\* The response holds results: findBestMatch picks one and searchTMDB returns.
ReceiveResults ==
    /\ spc = "await"
    /\ \E rs \in SearchResponses :
          LET bestMatch == findBestMatch(rs, sTitle, country, sType)
          IN  /\ bestMatch # Null
              /\ sret' = MatchResult(bestMatch, sType, strat)
    /\ spc' = "return"
    /\ inflight' = inflight - 1
    /\ outcomes' = Append(outcomes, "results")
    /\ lastEvent' = "response"
    /\ UNCHANGED <<config, enrichFrame, searchFrame, strat, threw, issued, lastCallItem>>
    /\ UNCHANGED <<xvars, mvars, svars, cvars>>

\* The response holds no results: on to the pacing delay.
ReceiveEmpty ==
    /\ spc = "await"
    /\ spc' = "pace"
    /\ inflight' = inflight - 1
    /\ outcomes' = Append(outcomes, "empty")
    /\ lastEvent' = "response"
    /\ UNCHANGED <<config, enrichFrame, searchFrame, strat, sret, threw, issued, lastCallItem>>
    /\ UNCHANGED <<xvars, mvars, svars, cvars>>

\* Mutant: no try/catch around the strategy; the outer catch returns null.
ReceiveErrorAborts ==
    /\ spc = "await"
    /\ spc' = "return"
    /\ sret' = Null
    /\ inflight' = inflight - 1
    /\ outcomes' = Append(outcomes, "fail")
    /\ lastEvent' = "response"
    /\ UNCHANGED <<config, enrichFrame, searchFrame, strat, threw, issued, lastCallItem>>
    /\ UNCHANGED <<xvars, mvars, svars, cvars>>

\* The request fails (transport error, timeout): catch (strategyError).
ReceiveError ==
    /\ spc = "await"
    /\ spc' = "pace"
    /\ inflight' = inflight - 1
    /\ outcomes' = Append(outcomes, "fail")
    /\ lastEvent' = "response"
    /\ UNCHANGED <<config, enrichFrame, searchFrame, strat, sret, threw, issued, lastCallItem>>
    /\ UNCHANGED <<xvars, mvars, svars, cvars>>

\* Mutant: running out of strategies raises an error instead of returning null.
StrategyWaitThrows ==
    /\ spc = "pace"
    /\ lastEvent' = "wait100"
    /\ strat' = strat + 1
    /\ IF strat + 1 > NumStrategies
       THEN /\ threw' = TRUE
            /\ spc' = "return"
       ELSE /\ spc' = "issue"
            /\ UNCHANGED threw
    /\ UNCHANGED <<config, enrichFrame, searchFrame, sret, inflight, issued, outcomes, lastCallItem>>
    /\ UNCHANGED <<xvars, mvars, svars, cvars>>

\* await this.wait(100), then i++; after the last strategy return null.
StrategyWait ==
    /\ spc = "pace"
    /\ lastEvent' = "wait100"
    /\ strat' = strat + 1
    /\ IF strat + 1 > NumStrategies
       THEN /\ sret' = Null
            /\ spc' = "return"
       ELSE /\ spc' = "issue"
            /\ UNCHANGED sret
    /\ UNCHANGED <<config, enrichFrame, searchFrame, threw, inflight, issued, outcomes, lastCallItem>>
    /\ UNCHANGED <<xvars, mvars, svars, cvars>>

----------------------------------------------------------------------------
(* enrichWithTMDB *)

\* The call of searchTMDB(item.title, mediaType, countryCode) for item i.
CallSearch(i, mediaType) ==
    /\ spc' = "enter"
    /\ sTitle' = items[i].title
    /\ sType' = mediaType
    /\ idx' = i
    /\ invoked' = IF i = idx THEN Append(invoked, mediaType) ELSE <<mediaType>>

\* Mutant: enrichWithTMDB without the API key check.
EnrichEnterUnguarded ==
    /\ mode = "enrich"
    /\ epc = "enter"
    /\ IF Len(items) = 0
       THEN /\ out' = <<>>
            /\ epc' = "returned"
            /\ UNCHANGED <<idx, spc, sTitle, sType, invoked>>
       ELSE /\ CallSearch(1, MediaTypeOf(items[1]))
            /\ epc' = "first"
            /\ UNCHANGED out
    /\ UNCHANGED <<config, tmdbData, enrichedItem, enriched, found, strat, sret, threw,
                   inflight, issued, outcomes, lastEvent, lastCallItem>>
    /\ UNCHANGED <<xvars, mvars, svars, cvars>>

\* if (!this.tmdbApiKey) return items; otherwise start the loop
EnrichEnter ==
    /\ mode = "enrich"
    /\ epc = "enter"
    /\ IF ~apiKey
       THEN /\ out' = items
            /\ epc' = "returned"
            /\ UNCHANGED <<idx, spc, sTitle, sType, invoked>>
       ELSE IF Len(items) = 0
       THEN /\ out' = <<>>
            /\ epc' = "returned"
            /\ UNCHANGED <<idx, spc, sTitle, sType, invoked>>
       ELSE /\ CallSearch(1, MediaTypeOf(items[1]))
            /\ epc' = "first"
            /\ UNCHANGED out
    /\ UNCHANGED <<config, tmdbData, enrichedItem, enriched, found, strat, sret, threw,
                   inflight, issued, outcomes, lastEvent, lastCallItem>>
    /\ UNCHANGED <<xvars, mvars, svars, cvars>>

\* Mutant: no retry with 'multi'.
AfterFirstSearchNoRetry ==
    /\ epc = "first"
    /\ spc = "return"
    /\ tmdbData' = sret
    /\ enrichedItem' = Spread(items[idx], sret)
    /\ enriched' = Append(enriched, Spread(items[idx], sret))
    /\ found' = Append(found, sret # Null)
    /\ epc' = "pace"
    /\ spc' = "idle"
    /\ UNCHANGED <<idx, sTitle, sType, invoked>>
    /\ UNCHANGED <<config, out, strat, sret, threw, inflight, issued, outcomes,
                   lastEvent, lastCallItem>>
    /\ UNCHANGED <<xvars, mvars, svars, cvars>>

\* const enrichedItem = {...item, ...tmdbData}; if (!tmdbData) retry with
\* 'multi', else push the item.
AfterFirstSearch ==
    /\ epc = "first"
    /\ spc = "return"
    /\ tmdbData' = sret
    /\ enrichedItem' = Spread(items[idx], sret)
    /\ IF sret = Null
       THEN /\ CallSearch(idx, "multi")
            /\ epc' = "second"
            /\ UNCHANGED <<enriched, found>>
       ELSE /\ enriched' = Append(enriched, Spread(items[idx], sret))
            /\ found' = Append(found, TRUE)
            /\ epc' = "pace"
            /\ spc' = "idle"
            /\ UNCHANGED <<idx, sTitle, sType, invoked>>
    /\ UNCHANGED <<config, out, strat, sret, threw, inflight, issued, outcomes,
                   lastEvent, lastCallItem>>
    /\ UNCHANGED <<xvars, mvars, svars, cvars>>

\* if (multiSearchData) Object.assign(enrichedItem, multiSearchData); push
AfterSecondSearch ==
    /\ epc = "second"
    /\ spc = "return"
    /\ enrichedItem' = Spread(enrichedItem, sret)
    /\ enriched' = Append(enriched, Spread(enrichedItem, sret))
    /\ found' = Append(found, sret # Null)
    /\ epc' = "pace"
    /\ spc' = "idle"
    /\ UNCHANGED <<config, idx, tmdbData, out, sTitle, sType, strat, sret, threw, inflight,
                   issued, outcomes, invoked, lastEvent, lastCallItem>>
    /\ UNCHANGED <<xvars, mvars, svars, cvars>>

\* Mutant: the loop goes on without the wait.
ItemWaitSkipped ==
    /\ epc = "pace"
    /\ IF idx + 1 > Len(items)
       THEN /\ out' = enriched
            /\ epc' = "returned"
            /\ UNCHANGED <<idx, spc, sTitle, sType, invoked>>
       ELSE /\ CallSearch(idx + 1, MediaTypeOf(items[idx + 1]))
            /\ epc' = "first"
            /\ UNCHANGED out
    /\ UNCHANGED <<config, tmdbData, enrichedItem, enriched, found, strat, sret, threw,
                   inflight, issued, outcomes, lastEvent, lastCallItem>>
    /\ UNCHANGED <<xvars, mvars, svars, cvars>>

\* await this.wait(200), then the next item, or return enrichedItems
ItemWait ==
    /\ epc = "pace"
    /\ lastEvent' = "wait200"
    /\ IF idx + 1 > Len(items)
       THEN /\ out' = enriched
            /\ epc' = "returned"
            /\ UNCHANGED <<idx, spc, sTitle, sType, invoked>>
       ELSE /\ CallSearch(idx + 1, MediaTypeOf(items[idx + 1]))
            /\ epc' = "first"
            /\ UNCHANGED out
    /\ UNCHANGED <<config, tmdbData, enrichedItem, enriched, found, strat, sret, threw,
                   inflight, issued, outcomes, lastCallItem>>
    /\ UNCHANGED <<xvars, mvars, svars, cvars>>

EIdle ==
    /\ apiKey = FALSE /\ mode = "idle" /\ items = <<>> /\ country = "PH"
    /\ epc = "idle" /\ idx = 0 /\ tmdbData = Null /\ enrichedItem = Null
    /\ enriched = <<>> /\ out = Null
    /\ spc = "idle" /\ sTitle = <<>> /\ sType = "multi" /\ strat = 0 /\ sret = Null
    /\ threw = FALSE /\ inflight = 0
    /\ issued = <<>> /\ outcomes = <<>> /\ invoked = <<>> /\ found = <<>>
    /\ lastEvent = "none" /\ lastCallItem = 0

\* A call of enrichWithTMDB(items) with the default countryCode, or of
\* searchTMDB(title, mediaType, countryCode), on a fresh service.
EInit ==
    /\ XIdle
    /\ MIdle
    /\ SIdle
    /\ CIdle
    /\ apiKey \in BOOLEAN
    /\ mode \in {"enrich", "search"}
    /\ country \in (IF mode = "enrich" THEN {"PH"} ELSE Countries)
    /\ IF mode = "enrich"
       THEN /\ items \in SeqsUpTo(ItemSet, MaxItems)
            /\ epc = "enter" /\ spc = "idle"
            /\ sTitle = <<>> /\ sType = "multi"
       ELSE /\ items = <<>>
            /\ epc = "idle" /\ spc = "enter"
            /\ sTitle \in {it.title : it \in ItemSet}
            /\ sType \in MediaTypes
    /\ idx = 0 /\ tmdbData = Null /\ enrichedItem = Null /\ enriched = <<>> /\ out = Null
    /\ strat = 0 /\ sret = Null /\ threw = FALSE /\ inflight = 0
    /\ issued = <<>> /\ outcomes = <<>> /\ invoked = <<>> /\ found = <<>>
    /\ lastEvent = "none" /\ lastCallItem = 0

ENext ==
    \/ SearchEnter \/ IssueRequest \/ ReceiveResults \/ ReceiveEmpty \/ ReceiveError
    \/ StrategyWait \/ EnrichEnter \/ AfterFirstSearch \/ AfterSecondSearch \/ ItemWait

SpecEnrich == EInit /\ [][ENext]_vars

----------------------------------------------------------------------------
(* The specifications of the extractor and of the scoring *)

ExtractInit == XInit /\ MIdle /\ EIdle /\ SIdle /\ CIdle

XNext == Method1 \/ Method2 \/ Method3 \/ Finish

SpecExtract == ExtractInit /\ [][XNext]_vars

MatchInit == MInit /\ XIdle /\ EIdle /\ SIdle /\ CIdle

MNext == BestMatch

SpecMatch == MatchInit /\ [][MNext]_vars

----------------------------------------------------------------------------
(* calculateStringSimilarity applied to a pair of strings, both ways *)

SimChars == {"a", "b", "c"}

SInit ==
    /\ simpc = "call"
    /\ simA \in SeqsUpTo(SimChars, MaxStrLen)
    /\ simB \in SeqsUpTo(SimChars, MaxStrLen)
    /\ simAB = Null
    /\ simBA = Null
    /\ simAA = Null

Compare ==
    /\ simpc = "call"
    /\ simAB' = calculateStringSimilarity(simA, simB)
    /\ simBA' = calculateStringSimilarity(simB, simA)
    /\ simAA' = calculateStringSimilarity(simA, simA)
    /\ simpc' = "done"
    /\ UNCHANGED <<simA, simB>>
    /\ UNCHANGED <<xvars, mvars, evars, cvars>>

SimilarityInit == SInit /\ XIdle /\ MIdle /\ EIdle /\ CIdle

SNext == Compare

SpecSimilarity == SimilarityInit /\ [][SNext]_vars

----------------------------------------------------------------------------
(* The TV-shows cache of ScraperController *)

\* this.CACHE_DURATION, 60 * 60 * 1000 ms, in ticks of half an hour
CACHE_DURATION == 2

\* The object scrapeNetflixTop10('tv') resolves to for request r.
ScrapeResult(r) == [success |-> TRUE, scrape |-> r]

\* { value, expiry }
CacheEntry(value, expiry) == [value |-> value, expiry |-> expiry]

\* The expiry test passing at any time.
UnexpiredAlways(entry, t) == TRUE

\* Date.now() < entry.expiry
Unexpired(entry, t) == t < entry.expiry

\* getFromCache(key): the value returned, Null for null, and the two stores
\* as the call leaves them.
getFromCache(ls, mem, t) ==
    LET lsRead == hasLocalStorage /\ ls # NoEntry
        lsHit == lsRead /\ Unexpired(ls, t)
        lsAfter == IF lsRead /\ ~lsHit THEN NoEntry ELSE ls
        memHit == mem # NoEntry /\ Unexpired(mem, t)
    IN  IF lsHit THEN [value |-> ls.value, ls |-> ls, mem |-> mem]
        ELSE IF memHit THEN [value |-> mem.value, ls |-> lsAfter, mem |-> mem]
        ELSE [value |-> Null, ls |-> lsAfter, mem |-> NoEntry]

\* setCache(key, value): the two stores as the call leaves them; `throws`
\* when localStorage.setItem raises (storage quota exceeded).
setCache(ls, mem, value, t, throws) ==
    LET cacheData == CacheEntry(value, t + CACHE_DURATION)
    IN  IF hasLocalStorage /\ ~throws THEN [ls |-> cacheData, mem |-> mem]
        ELSE [ls |-> ls, mem |-> cacheData]

Response(kind, r, value, t) == [kind |-> kind, req |-> r, value |-> value, at |-> t]

CInit ==
    /\ now = 0
    /\ hasLocalStorage \in BOOLEAN
    /\ localStore = NoEntry
    /\ memoryCache = NoEntry
    /\ nreq = 0
    /\ scraping = {}
    /\ storedAt = <<>>
    /\ failed = {}
    /\ lastResp = NoResponse
    /\ clearedAt = -1
    /\ storedSince = FALSE

\* Time passes.
Tick ==
    /\ now < MaxTime
    /\ now' = now + 1
    /\ UNCHANGED <<hasLocalStorage, localStore, memoryCache, nreq, scraping,
                   storedAt, failed, lastResp, clearedAt, storedSince>>
    /\ UNCHANGED <<xvars, mvars, evars, svars>>

\* getNetflixTVShows up to its response from the cache or to the await of
\* the scrape.
Request ==
    /\ nreq < MaxReqs
    /\ nreq' = nreq + 1
    /\ LET cachedResult == getFromCache(localStore, memoryCache, now)
       IN  /\ localStore' = cachedResult.ls
           /\ memoryCache' = cachedResult.mem
           /\ IF cachedResult.value # Null
              THEN /\ lastResp' = Response("cached", nreq + 1, cachedResult.value, now)
                   /\ UNCHANGED scraping
              ELSE /\ scraping' = scraping \cup {nreq + 1}
                   /\ UNCHANGED lastResp
    /\ UNCHANGED <<now, hasLocalStorage, storedAt, failed, clearedAt, storedSince>>
    /\ UNCHANGED <<xvars, mvars, evars, svars>>

\* The scrape of request r resolves: setCache and the fresh response.
ScrapeSucceeds(r) ==
    /\ r \in scraping
    /\ \E throws \in (IF hasLocalStorage THEN BOOLEAN ELSE {FALSE}) :
          LET stores == setCache(localStore, memoryCache, ScrapeResult(r), now, throws)
          IN  /\ localStore' = stores.ls
              /\ memoryCache' = stores.mem
    /\ scraping' = scraping \ {r}
    /\ storedAt' = (r :> now) @@ storedAt
    /\ lastResp' = Response("fresh", r, ScrapeResult(r), now)
    /\ storedSince' = TRUE
    /\ UNCHANGED <<now, hasLocalStorage, nreq, failed, clearedAt>>
    /\ UNCHANGED <<xvars, mvars, evars, svars>>

\* The scrape of request r rejects: next(error).
ScrapeFails(r) ==
    /\ r \in scraping
    /\ scraping' = scraping \ {r}
    /\ failed' = failed \cup {r}
    /\ lastResp' = Response("error", r, Null, now)
    /\ UNCHANGED <<now, hasLocalStorage, localStore, memoryCache, nreq, storedAt,
                   clearedAt, storedSince>>
    /\ UNCHANGED <<xvars, mvars, evars, svars>>

\* getHealth: its getFromCache call drops an expired entry.
Health ==
    /\ LET cachedResult == getFromCache(localStore, memoryCache, now)
       IN  /\ localStore' = cachedResult.ls
           /\ memoryCache' = cachedResult.mem
    /\ UNCHANGED <<now, hasLocalStorage, nreq, scraping, storedAt, failed, lastResp,
                   clearedAt, storedSince>>
    /\ UNCHANGED <<xvars, mvars, evars, svars>>

\* clearCache(), clearCache('netflix_tv_shows')
ClearCache ==
    /\ localStore' = NoEntry
    /\ memoryCache' = NoEntry
    /\ clearedAt' = nreq
    /\ storedSince' = FALSE
    /\ UNCHANGED <<now, hasLocalStorage, nreq, scraping, storedAt, failed, lastResp>>
    /\ UNCHANGED <<xvars, mvars, evars, svars>>

CacheInit == CInit /\ XIdle /\ MIdle /\ EIdle /\ SIdle

CNext ==
    \/ Tick
    \/ Request
    \/ \E r \in 1..MaxReqs : ScrapeSucceeds(r)
    \/ \E r \in 1..MaxReqs : ScrapeFails(r)
    \/ Health
    \/ ClearCache

SpecCache == CacheInit /\ [][CNext]_vars

----------------------------------------------------------------------------
\* C1: the list parseTableData returns has at most 10 entries, every rank
\* is an integer in 1..10, and no two entries share a rank.
C1_UniqueRanksInRange ==
    xpc = "returned" =>
        /\ Len(finalResults) <= 10
        /\ \A i \in 1..Len(finalResults) : finalResults[i].rank \in 1..10
        /\ \A i, j \in 1..Len(finalResults) :
               finalResults[i].rank = finalResults[j].rank => i = j

\* The gap fill has run on a document of more than 10 anchors and the
\* returned list is full.
C1_Witness ==
    /\ xpc = "returned"
    /\ Len(doc.anchors) > 10
    /\ 4 \in {ran[i] : i \in 1..Len(ran)}
    /\ Len(finalResults) = 10

\* C2: the returned list is rank-ordered: each entry's rank is strictly
\* greater than the rank of the entry before it, gap-filled entries included.
C2_RankOrdered ==
    xpc = "returned" =>
        \A i \in 1..(Len(finalResults) - 1) :
            finalResults[i].rank < finalResults[i + 1].rank

----------------------------------------------------------------------------
Last(seq) == seq[Len(seq)]

\* C3: the strategies of one searchTMDB call are issued in the order
\* 1, 2, 3, 4; strategy k + 1 is issued only after strategy k returned no
\* results or failed; and once a strategy returns results the call returns
\* a match carrying that strategy's index and no later strategy is issued.
C3_StrategyCascade ==
    /\ Len(issued) <= NumStrategies
    /\ \A k \in 1..Len(issued) : issued[k] = k
    /\ Len(outcomes) \in {Len(issued) - 1, Len(issued)} \cap (0..NumStrategies)
    /\ \A k \in 1..(Len(issued) - 1) : outcomes[k] \in {"empty", "fail"}
    /\ \A k \in 1..Len(outcomes) :
           outcomes[k] = "results" =>
               /\ k = Len(issued)
               /\ spc \notin {"issue", "await", "pace"}
               /\ sret # Null
               /\ sret.search_strategy_used = k

\* The third strategy answered with results after the first two did not.
C3_Witness ==
    /\ spc = "return"
    /\ outcomes = <<"empty", "fail", "results">>
    /\ sret.search_strategy_used = 3

\* C4: when all four strategies return zero results, searchTMDB completes
\* with null and raises no error, whatever the title, media type and region.
C4_AllEmptyIsNull ==
    /\ ~threw
    /\ (spc = "return" /\ outcomes = <<"empty", "empty", "empty", "empty">>) => sret = Null

\* A direct searchTMDB call has returned after four empty responses.
C4_Witness ==
    /\ mode = "search"
    /\ spc = "return"
    /\ outcomes = <<"empty", "empty", "empty", "empty">>

\* C5: a failed search call is handled like zero results: the call never
\* raises, it ends only with a strategy that returned results (and then
\* returns that match) or after all four strategies returned nothing or
\* failed (and then returns null).
C5_FailureIsEmpty ==
    /\ ~threw
    /\ (spc = "return" /\ apiKey) =>
           /\ Len(outcomes) >= 1
           /\ \/ /\ Last(outcomes) = "results"
                 /\ sret # Null
                 /\ sret.search_strategy_used = Len(outcomes)
              \/ /\ Len(outcomes) = NumStrategies
                 /\ \A k \in 1..NumStrategies : outcomes[k] \in {"empty", "fail"}
                 /\ sret = Null

\* Strategy 1 failed and strategy 2 still produced the match.
C5_Witness ==
    /\ spc = "return"
    /\ outcomes = <<"fail", "results">>
    /\ sret # Null
    /\ sret.search_strategy_used = 2

\* C6: without an API key no search request and no wait is issued,
\* searchTMDB returns null and enrichWithTMDB returns its input unchanged
\* without calling searchTMDB.
C6_NoKeyShortCircuit ==
    ~apiKey =>
        /\ lastEvent = "none"
        /\ inflight = 0
        /\ issued = <<>>
        /\ spc = "return" => sret = Null
        /\ mode = "enrich" => spc = "idle"
        /\ epc = "returned" => out = items

\* enrichWithTMDB has returned two entries without an API key.
C6_Witness ==
    /\ ~apiKey
    /\ mode = "enrich"
    /\ epc = "returned"
    /\ Len(items) = 2
    /\ out = items

\* C7: for each entry searchTMDB is called first with 'movie' for a Movie
\* and 'tv' otherwise, a second time with 'multi' exactly when the first
\* call returned null, and never a third time.
C7_RetryOnceWithMulti ==
    (mode = "enrich" /\ idx >= 1) =>
        /\ Len(invoked) \in {1, 2}
        /\ invoked[1] = (IF items[idx].category = "Movie" THEN "movie" ELSE "tv")
        /\ Len(invoked) = 2 => invoked[2] = "multi"
        /\ epc = "first" => Len(invoked) = 1
        /\ epc = "second" => (Len(invoked) = 2 /\ tmdbData = Null)
        /\ epc = "pace" => (Len(invoked) = 2 <=> tmdbData = Null)

\* A Movie entry was searched as 'movie', then as 'multi', and matched.
C7_Witness ==
    /\ epc = "pace"
    /\ invoked = <<"movie", "multi">>
    /\ tmdbData = Null
    /\ Last(found)

EntryFields == {"rank", "title", "category"}

\* C8: enrichWithTMDB returns a list of the same length and order whose
\* entries keep rank, title and category; an entry without a match carries
\* no match field, and entries after it are still processed.
C8_EnrichKeepsEntries ==
    epc = "returned" =>
        /\ Len(out) = Len(items)
        /\ apiKey => Len(found) = Len(items)
        /\ \A i \in 1..Len(items) :
               /\ EntryFields \subseteq DOMAIN out[i]
               /\ out[i].rank = items[i].rank
               /\ out[i].title = items[i].title
               /\ out[i].category = items[i].category
               /\ IF apiKey /\ found[i]
                  THEN "tmdb_id" \in DOMAIN out[i]
                  ELSE DOMAIN out[i] = EntryFields

\* The first entry found no match, the second one did.
C8_Witness ==
    /\ epc = "returned"
    /\ found = <<FALSE, TRUE>>
    /\ "fail" \in {outcomes[k] : k \in 1..Len(outcomes)}

\* C9: at most one search request is in flight; a request is issued only
\* when none is in flight; and the first request of the next entry comes
\* directly after the wait that follows the previous entry.
C9_Sequential ==
    /\ [](inflight <= 1)
    /\ [][inflight' > inflight =>
              /\ inflight = 0
              /\ (lastCallItem # 0 /\ idx # lastCallItem) => lastEvent = "wait200"]_vars

\* A request for the second entry is in flight.
C9_Witness ==
    /\ spc = "await"
    /\ idx = 2
    /\ inflight = 1
    /\ lastCallItem = 2

ExactTitle(r) == CleanTitle(r.title) = CleanTitle(mTitle)

\* C10: an exact-title candidate is selected over a candidate whose title
\* is only near the input title, also when the latter has the higher
\* popularity and rating (here: and the same release date and origin, so
\* that only the title and the popularity/rating terms tell them apart).
C10_ExactTitleWins ==
    mpc = "done" =>
        LET scored == FilterByType(mResults, mType)
        IN  \A i, j \in 1..Len(scored) :
                (/\ ExactTitle(scored[i])
                 /\ ~ExactTitle(scored[j])
                 /\ scored[j].popularity > scored[i].popularity
                 /\ scored[j].vote_average > scored[i].vote_average
                 /\ scored[j].date = scored[i].date
                 /\ scored[j].origin_country = scored[i].origin_country)
                => mBest.cand # scored[j]

\* The candidate's cleaned title contains, or is contained in, the cleaned
\* input title.
ContainsTitle(r) ==
    \/ Includes(CleanTitle(r.title), CleanTitle(mTitle))
    \/ Includes(CleanTitle(mTitle), CleanTitle(r.title))

\* C11: a candidate whose cleaned title contains or is contained in the
\* cleaned input title always outranks a candidate with no containment: it
\* has the higher score and the other one is not selected.
C11_ContainmentOutranks ==
    mpc = "done" =>
        LET scored == FilterByType(mResults, mType)
        IN  \A i, j \in 1..Len(scored) :
                (ContainsTitle(scored[i]) /\ ~ContainsTitle(scored[j]))
                => /\ Score(scored[i], mTitle, mCountry) > Score(scored[j], mTitle, mCountry)
                   /\ mBest.cand # scored[j]

\* r.media_type || mediaType is the requested type.
OfRequestedType(r) == r.media_type = mType \/ r.media_type = ""

\* C12: for a non-empty result list a candidate of the list is returned;
\* when a definite type is requested and some candidate has it (a candidate
\* without a media_type field counts as having it), the returned candidate
\* has the requested type.
C12_TypeFilter ==
    (mpc = "done" /\ mResults # <<>>) =>
        /\ mBest # Null
        /\ \E k \in 1..Len(mResults) : mBest.cand = mResults[k]
        /\ (mType # "multi" /\ \E j \in 1..Len(mResults) : OfRequestedType(mResults[j]))
           => OfRequestedType(mBest.cand)

\* A candidate of the requested type was returned although a candidate of
\* another type scores higher.
C12_Witness ==
    /\ mpc = "done"
    /\ mType # "multi"
    /\ mBest # Null
    /\ OfRequestedType(mBest.cand)
    /\ \E j \in 1..Len(mResults) :
          /\ ~OfRequestedType(mResults[j])
          /\ Score(mResults[j], mTitle, mCountry) > mBest.similarity_score

\* No candidate has the requested type and one is returned all the same.
C12_FallbackWitness ==
    /\ mpc = "done"
    /\ mType # "multi"
    /\ mResults # <<>>
    /\ \A j \in 1..Len(mResults) : ~OfRequestedType(mResults[j])
    /\ mBest # Null

\* C13: the returned candidate has the highest score of the scored
\* candidates and is the first of them, in the order of the response, to
\* have it.
C13_FirstOfMaximum ==
    (mpc = "done" /\ mResults # <<>>) =>
        LET scored == FilterByType(mResults, mType)
            sc(k) == Score(scored[k], mTitle, mCountry)
        IN  \E k \in 1..Len(scored) :
                /\ mBest.cand = scored[k]
                /\ mBest.similarity_score = sc(k)
                /\ \A j \in 1..Len(scored) : sc(j) <= sc(k)
                /\ \A j \in 1..(k - 1) : sc(j) < sc(k)

\* Two different candidates share the highest score and the first was
\* returned.
C13_Witness ==
    /\ mpc = "done"
    /\ Len(FilterByType(mResults, mType)) = 2
    /\ LET scored == FilterByType(mResults, mType)
       IN  /\ scored[1] # scored[2]
           /\ Score(scored[1], mTitle, mCountry) = Score(scored[2], mTitle, mCountry)
           /\ mBest.cand = scored[1]

\* C14: calculateStringSimilarity gives the same value for (a, b) and for
\* (b, a), gives 1 for (a, a), and gives 1 for two empty strings.
C14_SymmetricReflexive ==
    simpc = "done" =>
        /\ simAB.num * simBA.den = simBA.num * simAB.den
        /\ simAA.num = simAA.den
        /\ simAA.den > 0
        /\ (simA = <<>> /\ simB = <<>>) => (simAB.num = simAB.den /\ simAB.den > 0)

\* Two different strings of different lengths with a similarity strictly
\* between 0 and 1 have been compared both ways.
C14_Witness ==
    /\ simpc = "done"
    /\ Len(simA) < Len(simB)
    /\ simAB.num > 0
    /\ simAB.num < simAB.den
    /\ simBA.num * simAB.den = simAB.num * simBA.den

----------------------------------------------------------------------------
\* The method has run.
Ran(k) == \E i \in 1..Len(ran) : ran[i] = k

\* The entries method 1 and the section-based scan yield on the document.
Stage1Yield == Len(TableScan(doc, CategoryOf(sectionType)))
Stage2Yield == Len(parseSectionBased(doc, sectionType))

\* C15: the methods run in the order 1, 2, 3, starting with method 1; the
\* section-based scan runs only if method 1 yielded fewer than 8 entries,
\* and the aggressive text scan runs only if the section-based scan has run
\* and yielded fewer than 8 entries.
C15_OrderedCascade ==
    /\ \A i, j \in 1..Len(ran) : i < j => ran[i] < ran[j]
    /\ ran # <<>> => ran[1] = 1
    /\ Ran(2) => Stage1Yield < 8
    /\ Ran(3) => (Ran(2) /\ Stage2Yield < 8)
    /\ (xpc = "returned" /\ Stage1Yield >= 8) => ~Ran(2)
    /\ (xpc = "returned" /\ Stage2Yield >= 8) => ~Ran(3)

\* The section-based scan has run and yielded 8 entries or more, and the
\* aggressive text scan has not run.
C15_Witness ==
    /\ xpc = "returned"
    /\ Ran(2)
    /\ Stage2Yield >= 8
    /\ ~Ran(3)

\* All three methods have run.
C15_AllRanWitness ==
    /\ xpc = "returned"
    /\ Ran(2)
    /\ Ran(3)

\* The candidates the method of the current position yields.
StageCandidates ==
    IF xpc = "method2" THEN parseSectionBased(doc, sectionType)
    ELSE parseTextBasedAggressive(doc, sectionType)

\* C16: in a step of method 2 or 3 the accumulated entries stay as they
\* are, every entry added is a candidate of the method whose rank no
\* accumulated entry held, and when the method runs, the first candidate of
\* every rank not yet held is added whatever its title; the reconciliation
\* that follows keeps every accumulated entry.
C16_RankOnlyMerge ==
    [][/\ (xpc \in {"method2", "method3"}) =>
            /\ Len(results') >= Len(results)
            /\ SubSeq(results', 1, Len(results)) = results
            /\ \A k \in (Len(results) + 1)..Len(results') :
                  /\ ~HasRank(results, results'[k].rank)
                  /\ \E c \in 1..Len(StageCandidates) : StageCandidates[c] = results'[k]
            /\ (Len(ran') > Len(ran)) =>
                  \A c \in 1..Len(StageCandidates) :
                      (/\ ~HasRank(results, StageCandidates[c].rank)
                       /\ \A b \in 1..(c - 1) :
                             StageCandidates[b].rank # StageCandidates[c].rank)
                      => \E k \in 1..Len(results') : results'[k] = StageCandidates[c]
       /\ (xpc = "reconcile") =>
            \A i \in 1..Len(results) :
                \E k \in 1..Len(finalResults') : finalResults'[k] = results[i]
      ]_vars

\* The aggressive text scan has added an entry whose title an entry of
\* method 1 already has at another rank.
C16_Witness ==
    /\ xpc = "returned"
    /\ Ran(3)
    /\ \E i, j \in 1..Len(results) :
          /\ i < j
          /\ results[i].title = results[j].title
          /\ results[i].rank # results[j].rank

\* A candidate of the section-based scan was dropped because its rank was
\* held by an entry with another title.
C16_RejectWitness ==
    /\ xpc = "method3"
    /\ Ran(2)
    /\ \E c \in 1..Len(parseSectionBased(doc, sectionType)) :
          \E i \in 1..Len(results) :
              /\ results[i].rank = parseSectionBased(doc, sectionType)[c].rank
              /\ results[i].title # parseSectionBased(doc, sectionType)[c].title

\* The anchors with a non-empty title, in document order.
TitledAnchors == SelectSeq(doc.anchors, LAMBDA a : a.title # <<>>)

\* The ranks of 1..10 the accumulated entries leave unfilled.
MissingRanks == {r \in 1..10 : ~HasRank(results, r)}

\* The k-th smallest of them.
NthMissing(k) ==
    CHOOSE r \in MissingRanks : Cardinality({x \in MissingRanks : x < r}) = k - 1

C17_ExhaustedWitness ==
    /\ xpc = "returned"
    /\ Ran(4)
    /\ Len(finalResults) > Len(results)
    /\ Len(finalResults) < 10

----------------------------------------------------------------------------
\* The entries the two stores hold under the key.
CachedEntries == {localStore, memoryCache} \ {NoEntry}

\* What the cache holds was stored by a request whose scrape succeeded,
\* with an expiry of CACHE_DURATION after the time it was stored, and the
\* last response, when it came from the cache, carries a result stored less
\* than CACHE_DURATION before it was sent.
CacheHoldsScrapes ==
    /\ \A e \in CachedEntries :
          /\ e.value.scrape \in DOMAIN storedAt
          /\ e.value.scrape \notin failed
          /\ e.expiry = storedAt[e.value.scrape] + CACHE_DURATION
    /\ lastResp.kind = "cached" =>
          /\ lastResp.value # Null
          /\ lastResp.value.scrape \in DOMAIN storedAt
          /\ lastResp.value.scrape \notin failed
          /\ lastResp.value.scrape < lastResp.req
          /\ storedAt[lastResp.value.scrape] <= lastResp.at
          /\ lastResp.at < storedAt[lastResp.value.scrape] + CACHE_DURATION

\* A step in which a request arrives: it is answered from the cache only
\* with an unexpired entry, an expired entry it reads is deleted, and if it
\* is not answered from the cache it goes on to scrape.
RequestReadsCache ==
    (nreq' = nreq + 1) =>
        LET hit == lastResp' # lastResp /\ lastResp'.kind = "cached"
            lsRead == hasLocalStorage /\ localStore # NoEntry
        IN  /\ hit => \E e \in CachedEntries : e.value = lastResp'.value /\ now < e.expiry
            /\ hit <=> (nreq + 1) \notin scraping'
            /\ (lsRead /\ now >= localStore.expiry) => localStore' = NoEntry
            /\ (memoryCache # NoEntry /\ now >= memoryCache.expiry
                  /\ ~(lsRead /\ now < localStore.expiry)) => memoryCache' = NoEntry

\* A step in which a scrape fails leaves the cache as it was.
FailureStoresNothing ==
    (failed' # failed) => (localStore' = localStore /\ memoryCache' = memoryCache)

\* C18: a response comes from the cache only with a result a succeeded
\* scrape of an earlier request stored less than CACHE_DURATION before; an
\* expired entry that is read is deleted and not returned; a failed scrape
\* stores nothing; and the first request after a clearCache scrapes afresh.
C18_CacheDiscipline ==
    /\ []CacheHoldsScrapes
    /\ [][/\ RequestReadsCache
          /\ FailureStoresNothing
          /\ (nreq' = nreq + 1 /\ clearedAt = nreq) => (nreq + 1) \in scraping'
         ]_vars

\* C18, amended: as C18, but the first request after a clearCache scrapes
\* afresh provided no scrape that was under way when the cache was cleared
\* has stored its result since; until then the cleared cache stays empty.
C18_CacheDisciplineQuiet ==
    /\ [](/\ CacheHoldsScrapes
          /\ (clearedAt # -1 /\ ~storedSince) => CachedEntries = {})
    /\ [][/\ RequestReadsCache
          /\ FailureStoresNothing
          /\ (nreq' = nreq + 1 /\ clearedAt = nreq /\ ~storedSince)
             => (nreq + 1) \in scraping'
         ]_vars

\* The cache was cleared while it held a result that would still be served
\* now, and the request that came next has scraped afresh; an earlier
\* scrape had failed.
C18_Witness ==
    /\ clearedAt >= 1
    /\ lastResp.kind = "fresh"
    /\ lastResp.req = clearedAt + 1
    /\ \E r \in DOMAIN storedAt :
          /\ r <= clearedAt
          /\ lastResp.at < storedAt[r] + CACHE_DURATION
    /\ failed # {}

\* A response came from the cache at a later time than the result was
\* stored.
C18_HitWitness ==
    /\ lastResp.kind = "cached"
    /\ lastResp.at > storedAt[lastResp.value.scrape]

====
